---- MODULE Spec2Model ----
(***************************************************************************)
(* Model of src/obs.py: a launcher thread (run_obs_in_thread) that spawns  *)
(* OBS Studio, the spawned process, and the supervisor (main) that waits   *)
(* a settle delay, checks the handle, polls is_obs_responsive() under a    *)
(* deadline and then issues one "replay toggle" command.                   *)
(*                                                                         *)
(* Time is counted in integer ticks (seconds).  The clock advances only    *)
(* while main is blocked in time.sleep() or in subprocess.run(); the       *)
(* launcher thread and the spawned process are asynchronous and may step   *)
(* at any moment.                                                          *)
(***************************************************************************)
EXTENDS Integers, FiniteSets, Sequences, TLC

\* ---- program constants -------------------------------------------------
MAX_WAIT_TIME_SECONDS == 60
CHECK_INTERVAL_SECONDS == 1
SETTLE_DELAY == 2
PROBE_TIMEOUT == 5
TOGGLE_TIMEOUT == 10

\* ---- bounds of the model -----------------------------------------------
\* exit codes of the spawned process range over 0..MaxExitCode
MaxExitCode == 1

VARIABLES
    pc,            \* position of main()
    lpc,           \* position of the launcher thread
    obs_process,   \* the global handle: "None" or "Popen"
    proc,          \* the spawned OS process: "none", "alive", "dead"
    procCode,      \* exit code of the OS process, -1 while it has none
    returncode,    \* obs_process.returncode as cached by poll(), -1 = None
    now,           \* time.time(), in ticks
    wakeAt,        \* end of the current time.sleep(), -1 when not sleeping
    start_time,    \* main's start_time, -1 before the poll loop
    callStart,     \* start of the subprocess.run() in flight, -1 if none
    obs_is_ready,  \* main's obs_is_ready
    probeOutcome,  \* what the probe command in is_obs_responsive() did
    probeRet,      \* what is_obs_responsive() handed back to main
    ctlOutcome,    \* what the toggle command did
    numProbes,     \* calls of is_obs_responsive()
    ctlCount,      \* invocations of the toggle command
    threadStarts,  \* obs_thread.start() calls
    spawnCount,    \* successful Popen() calls
    cleanOutcome,  \* how clean_sentinel_files() went, held by the launcher
                   \* between the cleanup and the spawn attempt
    launchResult,  \* what the Popen() call of the launcher did, "none"
                   \* before the call
    terminal,      \* the way main() ended, "none" while it runs
    exitStatus,    \* exit status of the script, -1 while it runs
    log,           \* set of log lines emitted (by tag)
    loggedCode,    \* exit code written into a log line, -1 if none
    inspected,     \* history: the value of obs_process line 111 read
    verifySaw,     \* history: what line 115 saw: "alive" or "dead"
    readyAfterAlive, \* history: a probe returned True after line 115 saw alive
    readyElapsed,  \* history: now - start_time when a probe returned True
    readyK,        \* history: number of the probe that returned True
    diedAt,        \* history: where main was when the process died
    probesAfterDeath \* history: probes started after the process died

vars == <<pc, lpc, obs_process, proc, procCode, returncode, now, wakeAt,
          start_time, callStart, obs_is_ready, probeOutcome, probeRet,
          ctlOutcome, numProbes, ctlCount, threadStarts, spawnCount,
          cleanOutcome, launchResult, terminal, exitStatus, log, loggedCode,
          inspected, verifySaw, readyAfterAlive, readyElapsed, readyK, diedAt,
          probesAfterDeath>>

launcherVars == <<lpc, obs_process, spawnCount, cleanOutcome, launchResult>>
endVars == <<terminal, exitStatus>>
logVars == <<log, loggedCode>>
probeVars == <<probeOutcome, probeRet>>
procVars == <<proc, procCode, diedAt>>
histVars == <<inspected, verifySaw, readyAfterAlive, readyElapsed,
              readyK, probesAfterDeath>>

\* outcomes of an external command run with subprocess.run(check=True, timeout=..)
CmdOutcomes == {"ok", "notfound", "nonzero", "timeout", "other"}
LaunchOutcomes == {"ok", "notfound", "other"}
CleanOutcomes == {"skipped", "completed", "error"}

\* ---- pure helpers --------------------------------------------------------

\* Popen.poll(): None (-1) while the process runs, else its exit code
poll == IF proc = "alive" THEN -1 ELSE procCode

\* a command run without its timeout: once past it, it never comes back
OutcomesAt_noTimeout(d, timeout) ==
    IF d >= timeout THEN {} ELSE CmdOutcomes \ {"timeout"}

\* outcomes a subprocess.run() with the given timeout can have after d ticks
OutcomesAt(d, timeout) ==
    IF d >= timeout THEN CmdOutcomes ELSE CmdOutcomes \ {"timeout"}

is_obs_responsive_timeoutTrue(o) ==
    CASE o = "ok"       -> "True"
      [] o = "notfound" -> "False"
      [] o = "nonzero"  -> "False"
      [] o = "timeout"  -> "True"
      [] OTHER          -> "False"

\* is_obs_responsive(): the try/except ladder around the probe command
is_obs_responsive(o) ==
    CASE o = "ok"       -> "True"
      [] o = "notfound" -> "False"
      [] o = "nonzero"  -> "False"
      [] o = "timeout"  -> "False"
      [] OTHER          -> "False"

toggle_handler_noCatchAll(o) ==
    CASE o = "ok"       -> "toggle_ok"
      [] o = "notfound" -> "toggle_notfound"
      [] o = "nonzero"  -> "toggle_cpe"
      [] o = "timeout"  -> "toggle_timeout"
      [] OTHER          -> "raise"

\* the try/except ladder around the toggle command: the log line it ends in
toggle_handler(o) ==
    CASE o = "ok"       -> "toggle_ok"
      [] o = "notfound" -> "toggle_notfound"
      [] o = "nonzero"  -> "toggle_cpe"
      [] o = "timeout"  -> "toggle_timeout"
      [] OTHER          -> "toggle_other"

\* exit status of the script: main() is called bare (no sys.exit), so a
\* normal return gives 0 and only an uncaught exception gives 1
ExitStatusOf(t) == IF t = "Crashed" THEN 1 ELSE 0

\* the while condition with <= in place of <
LoopCond_le == now - start_time <= MAX_WAIT_TIME_SECONDS

\* the while condition of the poll loop
LoopCond == now - start_time < MAX_WAIT_TIME_SECONDS

\* where main stands, as seen by the dying process
DeathPoint ==
    CASE pc = "probed" ->
           (IF probeRet = "True" THEN "probed_ready" ELSE "probed_notready")
      [] pc = "loop" -> (IF numProbes > 0 THEN "loop" ELSE "loop_entry")
      [] pc \in {"probing", "sleeping", "livecheck"} -> pc
      [] pc \in {"afterloop", "command", "done"} -> "after_loop"
      [] OTHER -> "before_loop"

\* main() ends with outcome t
Finish(t) ==
    /\ pc' = "done"
    /\ terminal' = t
    /\ exitStatus' = ExitStatusOf(t)

Init ==
    /\ pc = "start"
    /\ lpc = "notstarted"
    /\ obs_process = "None"
    /\ proc = "none"
    /\ procCode = -1
    /\ returncode = -1
    /\ now = 0
    /\ wakeAt = -1
    /\ start_time = -1
    /\ callStart = -1
    /\ obs_is_ready = FALSE
    /\ probeOutcome = "none"
    /\ probeRet = "none"
    /\ ctlOutcome = "none"
    /\ numProbes = 0
    /\ ctlCount = 0
    /\ threadStarts = 0
    /\ spawnCount = 0
    /\ cleanOutcome = "none"
    /\ launchResult = "none"
    /\ terminal = "none"
    /\ exitStatus = -1
    /\ log = {}
    /\ loggedCode = -1
    /\ inspected = "no"
    /\ verifySaw = "no"
    /\ readyAfterAlive = FALSE
    /\ readyElapsed = -1
    /\ readyK = 0
    /\ diedAt = "none"
    /\ probesAfterDeath = 0

\* ---- the launcher thread -------------------------------------------------

\* the Popen() call with only its FileNotFoundError clause
launch_handler_noCatchAll(o) ==
    CASE o = "ok"       -> "done"
      [] o = "notfound" -> "done"
      [] OTHER          -> "crashed"

\* lines 60-68: Popen() succeeds, or FileNotFoundError or any other
\* Exception is logged; in each case the thread function returns
launch_handler(o) ==
    CASE o = "ok"       -> "done"
      [] o = "notfound" -> "done"
      [] OTHER          -> "done"

\* clean_sentinel_files() without its try/except: an error part-way ends
\* the thread before the spawn attempt
LauncherClean_raises ==
    /\ lpc = "clean"
    /\ \E c \in CleanOutcomes :
         /\ cleanOutcome' = c
         /\ lpc' = (IF c = "error" THEN "crashed" ELSE "spawn")
    /\ UNCHANGED <<pc, obs_process, proc, procCode, returncode, now, wakeAt,
                   start_time, callStart, obs_is_ready, probeOutcome,
                   probeRet, ctlOutcome, numProbes, ctlCount, threadStarts,
                   spawnCount, launchResult, terminal, exitStatus, log,
                   loggedCode, diedAt>>
    /\ UNCHANGED histVars

\* clean_sentinel_files(): never raises, whatever happens inside
LauncherClean ==
    /\ lpc = "clean"
    /\ \E c \in CleanOutcomes : cleanOutcome' = c
    /\ lpc' = "spawn"
    /\ UNCHANGED <<pc, obs_process, proc, procCode, returncode, now, wakeAt,
                   start_time, callStart, obs_is_ready, probeOutcome,
                   probeRet, ctlOutcome, numProbes, ctlCount, threadStarts,
                   spawnCount, launchResult, terminal, exitStatus, log,
                   loggedCode, diedAt>>
    /\ UNCHANGED histVars

\* the handle is assigned whatever Popen() did
LauncherSpawn_publishOnFailure ==
    /\ lpc = "spawn"
    /\ \E o \in LaunchOutcomes :
         /\ launchResult' = o
         /\ lpc' = launch_handler(o)
         /\ obs_process' = "Popen"
         /\ IF o = "ok"
            THEN /\ proc' = "alive"
                 /\ spawnCount' = spawnCount + 1
            ELSE UNCHANGED <<proc, spawnCount>>
    /\ cleanOutcome' = "none"
    /\ UNCHANGED <<pc, procCode, returncode, now, wakeAt, start_time,
                   callStart, obs_is_ready, probeOutcome, probeRet,
                   ctlOutcome, numProbes, ctlCount, threadStarts,
                   terminal, exitStatus, log, loggedCode,
                   diedAt>>
    /\ UNCHANGED histVars

\* obs_process = subprocess.Popen(...) with its two except clauses
LauncherSpawn ==
    /\ lpc = "spawn"
    /\ \E o \in LaunchOutcomes :
         /\ launchResult' = o
         /\ lpc' = launch_handler(o)
         /\ IF o = "ok"
            THEN /\ obs_process' = "Popen"
                 /\ proc' = "alive"
                 /\ spawnCount' = spawnCount + 1
            ELSE UNCHANGED <<obs_process, proc, spawnCount>>
    /\ cleanOutcome' = "none"
    /\ UNCHANGED <<pc, procCode, returncode, now, wakeAt, start_time,
                   callStart, obs_is_ready, probeOutcome, probeRet,
                   ctlOutcome, numProbes, ctlCount, threadStarts,
                   terminal, exitStatus, log, loggedCode,
                   diedAt>>
    /\ UNCHANGED histVars

\* ---- the spawned process -------------------------------------------------

\* the process exits on its own, at any moment, with any code
ProcExit ==
    /\ proc = "alive"
    /\ \E c \in 0..MaxExitCode : procCode' = c
    /\ proc' = "dead"
    /\ diedAt' = DeathPoint
    /\ UNCHANGED <<pc, returncode, now, wakeAt, start_time, callStart,
                   obs_is_ready, probeOutcome, probeRet, ctlOutcome,
                   numProbes, ctlCount, threadStarts, terminal, exitStatus,
                   log, loggedCode>>
    /\ UNCHANGED launcherVars
    /\ UNCHANGED histVars

\* ---- the clock -----------------------------------------------------------

\* time passes while main sleeps or waits for an external command
Tick ==
    /\ \/ pc \in {"settle", "sleeping"} /\ now < wakeAt
       \/ pc = "probing" /\ now - callStart < PROBE_TIMEOUT
       \/ pc = "command" /\ now - callStart < TOGGLE_TIMEOUT
    /\ now' = now + 1
    /\ UNCHANGED <<pc, returncode, wakeAt, start_time, callStart,
                   obs_is_ready, probeOutcome, probeRet, ctlOutcome,
                   numProbes, ctlCount, threadStarts, terminal, exitStatus,
                   log, loggedCode>>
    /\ UNCHANGED launcherVars
    /\ UNCHANGED procVars
    /\ UNCHANGED histVars

\* ---- main() --------------------------------------------------------------

\* line 111: no handle was produced
HandleMissing_inverted == obs_process # "None"

HandleMissing == obs_process = "None"

\* line 115: the process has already exited
ExitedImmediately_never == FALSE

ExitedImmediately == poll # -1

\* line 137: the process died during the wait
DiedWhileWaiting_inverted == obs_process # "None" /\ poll = -1

DiedWhileWaiting_never == FALSE

DiedWhileWaiting == obs_process # "None" /\ poll # -1

\* line 129: the truth value main gives to the prober's result
ProbeSaysReady_inverted(r) == r = "False"

ProbeSaysReady(r) == r = "True"

\* lines 104-109: start the launcher thread, then sleep the settle delay
MainStart ==
    /\ pc = "start"
    /\ threadStarts' = threadStarts + 1
    /\ lpc' = "clean"
    /\ wakeAt' = now + SETTLE_DELAY
    /\ pc' = "settle"
    /\ UNCHANGED <<obs_process, spawnCount, cleanOutcome, launchResult,
                   returncode, now,
                   start_time, callStart, obs_is_ready, ctlOutcome,
                   numProbes, ctlCount>>
    /\ UNCHANGED <<endVars, logVars, probeVars, procVars, histVars>>

\* line 109: time.sleep(2) returns
MainSettleWake ==
    /\ pc = "settle"
    /\ now >= wakeAt
    /\ wakeAt' = -1
    /\ pc' = "inspect"
    /\ UNCHANGED <<returncode, now, start_time, callStart, obs_is_ready,
                   ctlOutcome, numProbes, ctlCount, threadStarts>>
    /\ UNCHANGED <<endVars, logVars, probeVars, launcherVars, procVars,
                   histVars>>

\* main joins the launcher thread before it looks at the handle
MainInspect_join ==
    /\ pc = "inspect"
    /\ lpc = "done"
    /\ inspected' = obs_process
    /\ IF HandleMissing
       THEN /\ log' = log \cup {"no_handle"}
            /\ Finish("FailedNoHandle")
       ELSE /\ pc' = "verify"
            /\ UNCHANGED <<log, endVars>>
    /\ UNCHANGED <<returncode, now, wakeAt, start_time, callStart,
                   obs_is_ready, ctlOutcome, numProbes, ctlCount,
                   threadStarts, loggedCode, verifySaw, readyAfterAlive,
                   readyElapsed, readyK, probesAfterDeath>>
    /\ UNCHANGED <<probeVars, launcherVars, procVars>>

\* lines 111-114: if obs_process is None: ... return
MainInspect ==
    /\ pc = "inspect"
    /\ inspected' = obs_process
    /\ IF HandleMissing
       THEN /\ log' = log \cup {"no_handle"}
            /\ Finish("FailedNoHandle")
       ELSE /\ pc' = "verify"
            /\ UNCHANGED <<log, endVars>>
    /\ UNCHANGED <<returncode, now, wakeAt, start_time, callStart,
                   obs_is_ready, ctlOutcome, numProbes, ctlCount,
                   threadStarts, loggedCode, verifySaw, readyAfterAlive,
                   readyElapsed, readyK, probesAfterDeath>>
    /\ UNCHANGED <<probeVars, launcherVars, procVars>>

\* lines 115-125: elif obs_process.poll() is not None: ... return; else enter
\* the poll loop (start_time = time.time(); obs_is_ready = False)
MainVerify ==
    /\ pc = "verify"
    /\ returncode' = poll
    /\ verifySaw' = (IF poll = -1 THEN "alive" ELSE "dead")
    /\ IF ExitedImmediately
       THEN /\ log' = log \cup {"immediate_exit"}
            /\ loggedCode' = returncode'
            /\ Finish("FailedImmediateExit")
            /\ UNCHANGED <<start_time, obs_is_ready>>
       ELSE /\ log' = log \cup {"running"}
            /\ start_time' = now
            /\ obs_is_ready' = FALSE
            /\ pc' = "loop"
            /\ UNCHANGED <<loggedCode, endVars>>
    /\ UNCHANGED <<now, wakeAt, callStart, ctlOutcome, numProbes, ctlCount,
                   threadStarts, inspected, readyAfterAlive, readyElapsed,
                   readyK, probesAfterDeath>>
    /\ UNCHANGED <<probeVars, launcherVars, procVars>>

\* lines 127-129: evaluate the while condition; when it holds, call
\* is_obs_responsive(), which starts the probe command
MainLoop ==
    /\ pc = "loop"
    /\ IF LoopCond
       THEN /\ pc' = "probing"
            /\ callStart' = now
            /\ numProbes' = numProbes + 1
            /\ probesAfterDeath' =
                 probesAfterDeath + (IF proc = "dead" THEN 1 ELSE 0)
       ELSE /\ pc' = "afterloop"
            /\ UNCHANGED <<callStart, numProbes, probesAfterDeath>>
    /\ UNCHANGED <<returncode, now, wakeAt, start_time, obs_is_ready,
                   ctlOutcome, ctlCount, threadStarts, inspected,
                   verifySaw, readyAfterAlive, readyElapsed, readyK>>
    /\ UNCHANGED <<endVars, logVars, probeVars, launcherVars, procVars>>

\* lines 74-97: the probe command ends (or hits its timeout) and
\* is_obs_responsive() returns
ProbeReturn ==
    /\ pc = "probing"
    /\ \E o \in OutcomesAt(now - callStart, PROBE_TIMEOUT) :
         /\ probeOutcome' = o
         /\ probeRet' = is_obs_responsive(o)
    /\ callStart' = -1
    /\ pc' = "probed"
    /\ IF probeRet' = "True"
       THEN /\ readyElapsed' = now - start_time
            /\ readyK' = numProbes
            /\ readyAfterAlive' = (verifySaw = "alive")
       ELSE UNCHANGED <<readyElapsed, readyK, readyAfterAlive>>
    /\ UNCHANGED <<returncode, now, wakeAt, start_time, obs_is_ready,
                   ctlOutcome, numProbes, ctlCount, threadStarts, inspected,
                   verifySaw, probesAfterDeath>>
    /\ UNCHANGED <<endVars, logVars, launcherVars, procVars>>

\* lines 129-134 without the break: a ready result is noted but the loop
\* goes on
MainProbed_noBreak ==
    /\ pc = "probed"
    /\ probeRet' = "none"
    /\ probeOutcome' = "none"
    /\ IF probeRet = "raise"
       THEN /\ Finish("Crashed")
            /\ UNCHANGED <<obs_is_ready, log, wakeAt>>
       ELSE /\ obs_is_ready' = (obs_is_ready \/ ProbeSaysReady(probeRet))
            /\ wakeAt' = now + CHECK_INTERVAL_SECONDS
            /\ pc' = "sleeping"
            /\ UNCHANGED <<log, endVars>>
    /\ UNCHANGED <<returncode, now, start_time, callStart, ctlOutcome,
                   numProbes, ctlCount, threadStarts, loggedCode>>
    /\ UNCHANGED <<launcherVars, procVars, histVars>>

\* lines 129-134: if is_obs_responsive(): obs_is_ready = True; break
\* otherwise time.sleep(CHECK_INTERVAL_SECONDS)
MainProbed ==
    /\ pc = "probed"
    /\ probeRet' = "none"
    /\ probeOutcome' = "none"
    /\ IF probeRet = "raise"
       THEN /\ Finish("Crashed")
            /\ UNCHANGED <<obs_is_ready, log, wakeAt>>
       ELSE IF ProbeSaysReady(probeRet)
       THEN /\ obs_is_ready' = TRUE
            /\ log' = log \cup {"responsive"}
            /\ pc' = "afterloop"
            /\ UNCHANGED <<wakeAt, endVars>>
       ELSE /\ wakeAt' = now + CHECK_INTERVAL_SECONDS
            /\ pc' = "sleeping"
            /\ UNCHANGED <<obs_is_ready, log, endVars>>
    /\ UNCHANGED <<returncode, now, start_time, callStart, ctlOutcome,
                   numProbes, ctlCount, threadStarts, loggedCode>>
    /\ UNCHANGED <<launcherVars, procVars, histVars>>

\* line 134: time.sleep(CHECK_INTERVAL_SECONDS) returns
MainSleepWake ==
    /\ pc = "sleeping"
    /\ now >= wakeAt
    /\ wakeAt' = -1
    /\ pc' = "livecheck"
    /\ UNCHANGED <<returncode, now, start_time, callStart, obs_is_ready,
                   ctlOutcome, numProbes, ctlCount, threadStarts>>
    /\ UNCHANGED <<endVars, logVars, probeVars, launcherVars, procVars,
                   histVars>>

\* lines 137-140: if obs_process and obs_process.poll() is not None: break
MainLiveCheck ==
    /\ pc = "livecheck"
    /\ returncode' = poll
    /\ IF DiedWhileWaiting
       THEN /\ log' = log \cup {"died_waiting"}
            /\ loggedCode' = returncode'
            /\ obs_is_ready' = FALSE
            /\ pc' = "afterloop"
       ELSE /\ pc' = "loop"
            /\ UNCHANGED <<log, loggedCode, obs_is_ready>>
    /\ UNCHANGED <<now, wakeAt, start_time, callStart, ctlOutcome,
                   numProbes, ctlCount, threadStarts>>
    /\ UNCHANGED <<endVars, probeVars, launcherVars, procVars, histVars>>

\* the failure path terminates the launched process before it returns
MainAfterLoop_kill ==
    /\ pc = "afterloop"
    /\ IF ~obs_is_ready
       THEN /\ log' = log \cup {"not_responsive"} \cup
                      (IF obs_process # "None" /\ poll = -1
                       THEN {"maybe_stuck"} ELSE {})
            /\ returncode' = poll
            /\ proc' = "dead"
            /\ procCode' = (IF proc = "alive" THEN MaxExitCode ELSE procCode)
            /\ Finish(IF "died_waiting" \in log
                      THEN "FailedDeath" ELSE "FailedTimeout")
            /\ UNCHANGED <<callStart, ctlCount>>
       ELSE /\ pc' = "command"
            /\ callStart' = now
            /\ ctlCount' = ctlCount + 1
            /\ UNCHANGED <<log, returncode, endVars, proc, procCode>>
    /\ UNCHANGED <<now, wakeAt, start_time, obs_is_ready, ctlOutcome,
                   numProbes, threadStarts, loggedCode, diedAt>>
    /\ UNCHANGED <<probeVars, launcherVars, histVars>>

\* the failure path without its return: the toggle command is run anyway
MainAfterLoop_noReturn ==
    /\ pc = "afterloop"
    /\ log' = (IF ~obs_is_ready
               THEN log \cup {"not_responsive"} \cup
                    (IF obs_process # "None" /\ poll = -1
                     THEN {"maybe_stuck"} ELSE {})
               ELSE log)
    /\ returncode' = (IF ~obs_is_ready THEN poll ELSE returncode)
    /\ pc' = "command"
    /\ callStart' = now
    /\ ctlCount' = ctlCount + 1
    /\ UNCHANGED <<now, wakeAt, start_time, obs_is_ready, ctlOutcome,
                   numProbes, threadStarts, loggedCode>>
    /\ UNCHANGED <<endVars, probeVars, launcherVars, procVars, histVars>>

\* lines 142-158: if not obs_is_ready: ... return; otherwise start the
\* toggle command
MainAfterLoop ==
    /\ pc = "afterloop"
    /\ IF ~obs_is_ready
       THEN /\ log' = log \cup {"not_responsive"} \cup
                      (IF obs_process # "None" /\ poll = -1
                       THEN {"maybe_stuck"} ELSE {})
            /\ returncode' = poll
            /\ Finish(IF "died_waiting" \in log
                      THEN "FailedDeath" ELSE "FailedTimeout")
            /\ UNCHANGED <<callStart, ctlCount>>
       ELSE /\ pc' = "command"
            /\ callStart' = now
            /\ ctlCount' = ctlCount + 1
            /\ UNCHANGED <<log, returncode, endVars>>
    /\ UNCHANGED <<now, wakeAt, start_time, obs_is_ready, ctlOutcome,
                   numProbes, threadStarts, loggedCode>>
    /\ UNCHANGED <<probeVars, launcherVars, procVars, histVars>>

\* lines 152-178: the toggle command ends (or hits its timeout), the
\* matching except clause logs it, and main() returns
CtlReturn ==
    /\ pc = "command"
    /\ \E o \in OutcomesAt(now - callStart, TOGGLE_TIMEOUT) :
         /\ ctlOutcome' = o
         /\ LET h == toggle_handler(o) IN
              IF h = "raise"
              THEN /\ Finish("Crashed")
                   /\ UNCHANGED log
              ELSE /\ log' = log \cup {h, "finished"}
                   /\ Finish(IF h = "toggle_ok"
                             THEN "Succeeded" ELSE "FailedCommand")
    /\ callStart' = -1
    /\ UNCHANGED <<returncode, now, wakeAt, start_time, obs_is_ready,
                   numProbes, ctlCount, threadStarts, loggedCode>>
    /\ UNCHANGED <<probeVars, launcherVars, procVars, histVars>>

MainNext ==
    \/ MainStart
    \/ MainSettleWake
    \/ MainInspect
    \/ MainVerify
    \/ MainLoop
    \/ ProbeReturn
    \/ MainProbed
    \/ MainSleepWake
    \/ MainLiveCheck
    \/ MainAfterLoop
    \/ CtlReturn

Next ==
    \/ MainStart
    \/ MainSettleWake
    \/ MainInspect
    \/ MainVerify
    \/ MainLoop
    \/ ProbeReturn
    \/ MainProbed
    \/ MainSleepWake
    \/ MainLiveCheck
    \/ MainAfterLoop
    \/ CtlReturn
    \/ LauncherClean
    \/ LauncherSpawn
    \/ ProcExit
    \/ Tick

Spec == Init /\ [][Next]_vars

\* the scheduler runs main whenever it can step, time passes while main
\* waits, and every external command returns by its timeout
FairSpec == Spec /\ WF_vars(MainNext) /\ WF_vars(Tick)

\* ---- properties ----------------------------------------------------------

Terminated == terminal # "none"
EnteredLoop == start_time # -1

\* C1: the toggle command has been issued only if main earlier saw the
\* process alive (line 115) and a probe returned True after that; no probe
\* is started before main saw the process alive.
C1_CommandOnlyAfterAliveAndReady ==
    /\ ctlCount > 0 => (verifySaw = "alive" /\ readyAfterAlive)
    /\ numProbes > 0 => verifySaw = "alive"
    /\ pc \in {"probing", "probed"} => verifySaw = "alive"

C1_Witness ==
    ctlCount = 1 /\ readyAfterAlive /\ verifySaw = "alive" /\ readyK = 2

\* C2: when line 111 reads obs_process as None, main ends right there in
\* FailedNoHandle, with no probe, no toggle command and no second launch.
C2_NoHandleEndsRun ==
    inspected = "None" =>
        /\ pc = "done"
        /\ terminal = "FailedNoHandle"
        /\ numProbes = 0
        /\ ctlCount = 0
        /\ threadStarts = 1
        /\ spawnCount <= 1

C2_Witness ==
    inspected = "None" /\ terminal = "FailedNoHandle" /\ lpc = "done"
    /\ obs_process = "None"

\* C3: when the handle exists at line 111 and poll() at line 115 reports an
\* exit, main ends in FailedImmediateExit with the exit code logged, and
\* neither the probe nor the toggle command is ever invoked.
C3_ImmediateExitEndsRun ==
    (inspected = "Popen" /\ verifySaw = "dead") =>
        /\ pc = "done"
        /\ terminal = "FailedImmediateExit"
        /\ loggedCode = procCode
        /\ loggedCode \in 0..MaxExitCode
        /\ numProbes = 0
        /\ ctlCount = 0

C3_Witness ==
    terminal = "FailedImmediateExit" /\ procCode = 1 /\ loggedCode = 1

\* C4 as stated: if no probe returns ready at an elapsed time within the
\* 60 tick deadline and the process stays alive, the run ends in
\* FailedTimeout and the toggle command is never invoked, also when a probe
\* started before the deadline returns ready after it.
C4_Original ==
    (Terminated /\ EnteredLoop /\ proc = "alive"
     /\ readyElapsed \notin 0..MAX_WAIT_TIME_SECONDS) =>
        (terminal = "FailedTimeout" /\ ctlCount = 0)

\* C4 amended: if no probe returns ready at all and the process stays alive,
\* the run ends in FailedTimeout, not before the deadline has elapsed, and
\* the toggle command is never invoked; every probe is started before the
\* deadline, so a ready result comes at an elapsed time of at most
\* deadline - 1 + probe timeout, and such a late ready result still leads to
\* the toggle command.
C4_TimeoutWithoutReady ==
    /\ (Terminated /\ EnteredLoop /\ proc = "alive" /\ readyElapsed = -1) =>
          /\ terminal = "FailedTimeout"
          /\ ctlCount = 0
          /\ now - start_time >= MAX_WAIT_TIME_SECONDS
    /\ readyElapsed <= MAX_WAIT_TIME_SECONDS - 1 + PROBE_TIMEOUT
    /\ (Terminated /\ readyElapsed > MAX_WAIT_TIME_SECONDS) => ctlCount = 1

C4_Witness ==
    terminal = "FailedTimeout" /\ proc = "alive" /\ readyElapsed = -1
    /\ numProbes > 2

\* C5 as stated: if the process dies after a probe call returned not-ready
\* and before the next probe call starts, the run ends with the
\* death-detected failure and no toggle command is issued.
C5_Original ==
    (Terminated
     /\ diedAt \in {"probed_notready", "sleeping", "livecheck", "loop"}) =>
        (terminal = "FailedDeath" /\ ctlCount = 0)

\* C5 amended: if the process dies after a probe call returned not-ready and
\* before the liveness check that follows the poll-interval sleep (line
\* 137), that check ends the loop: no further probe is started, no toggle
\* command is issued and the run ends with the death-detected failure, its
\* exit code logged.
C5_DeathBeforeLiveCheck ==
    diedAt \in {"probed_notready", "sleeping", "livecheck"} =>
        /\ probesAfterDeath = 0
        /\ ctlCount = 0
        /\ pc \in {"probed", "sleeping", "livecheck", "afterloop", "done"}
        /\ Terminated => (terminal = "FailedDeath" /\ loggedCode = procCode)

C5_Witness ==
    diedAt = "sleeping" /\ terminal = "FailedDeath"
    /\ now - start_time < MAX_WAIT_TIME_SECONDS - CHECK_INTERVAL_SECONDS

\* C6: once the k-th probe has returned ready, the loop stops: no further
\* probe is made, exactly one toggle command follows, and the run ends in
\* Succeeded exactly when that command exits zero.
C6_ReadyThenOneCommand ==
    readyK > 0 =>
        /\ numProbes = readyK
        /\ pc \in {"probed", "afterloop", "command", "done"}
        /\ ctlCount = (IF pc \in {"command", "done"} THEN 1 ELSE 0)
        /\ Terminated =>
              /\ terminal \in {"Succeeded", "FailedCommand"}
              /\ (ctlOutcome = "ok") = (terminal = "Succeeded")

C6_Witness ==
    readyK = 3 /\ terminal = "Succeeded" /\ ctlCount = 1 /\ numProbes = 3

\* C7: every failure of the toggle command (not found, non-zero exit,
\* timeout, any other error) ends the run in FailedCommand, none escapes as
\* an uncaught exception, and the command was attempted exactly once.
C7_CommandFailureHandled ==
    /\ ctlCount <= 1
    /\ terminal # "Crashed"
    /\ ctlOutcome \in {"notfound", "nonzero", "timeout", "other"} =>
          /\ pc = "done"
          /\ terminal = "FailedCommand"
          /\ ctlCount = 1
          /\ toggle_handler(ctlOutcome) \in log

C7_Witness ==
    ctlOutcome = "other" /\ terminal = "FailedCommand" /\ ctlCount = 1

\* C8 as stated: the exit status is 0 exactly when the run ended in
\* Succeeded, and non-zero in every terminal failure state.
C8_ExitStatusTellsOutcome ==
    Terminated => ((exitStatus = 0) = (terminal = "Succeeded"))

\* C9: under fairness of main's steps and of the clock every run reaches a
\* terminal state, and main never goes back to its starting position.
C9_AlwaysTerminates ==
    /\ <>(pc = "done" /\ Terminated)
    /\ [][pc # "start" => pc' # "start"]_vars
    /\ [][pc = "done" => pc' = "done"]_vars

C9_Witness ==
    pc = "done" /\ terminal = "FailedTimeout"
    /\ now - start_time = MAX_WAIT_TIME_SECONDS - 1 + PROBE_TIMEOUT
                          + CHECK_INTERVAL_SECONDS

\* C10: is_obs_responsive() returns True exactly when the probe command
\* exited zero within its timeout and False for every failure, never raises
\* into main, and changes nothing main keeps.
C10_ProberAbsorbsFailures ==
    /\ [](/\ pc = "probed" =>
               probeRet = (IF probeOutcome = "ok" THEN "True" ELSE "False")
          /\ probeRet # "raise"
          /\ terminal # "Crashed")
    /\ [][(pc = "probing" /\ pc' = "probed") =>
            UNCHANGED <<obs_process, obs_is_ready, start_time, returncode,
                        numProbes, ctlCount, terminal, exitStatus, log,
                        loggedCode>>]_vars

C10_Witness ==
    pc = "probed" /\ probeOutcome = "timeout" /\ probeRet = "False"
    /\ numProbes = 2

\* C11: no step of main or of the launcher ends the launched process: the
\* process goes from alive to dead only by its own exit, in a step that
\* moves neither main nor the launcher, on every path to every terminal
\* state.
C11_ProcessNeverTornDown ==
    /\ [][(proc = "alive" /\ proc' # "alive") =>
            (pc' = pc /\ lpc' = lpc /\ terminal' = terminal /\ log' = log)]_vars
    /\ [][(pc # "done" /\ pc' = "done") =>
            UNCHANGED <<proc, procCode>>]_vars

C11_Witness ==
    terminal = "FailedTimeout" /\ proc = "alive" /\ "maybe_stuck" \in log

\* C12: the handle is written at most once, by the launcher's Popen() step
\* and only when the spawn succeeded; main never writes it; at most one
\* process is spawned, and a handle once set never changes back.
C12_HandleWrittenOnce ==
    /\ [](/\ spawnCount <= 1
          /\ threadStarts <= 1
          /\ (obs_process = "Popen") = (spawnCount = 1)
          /\ (obs_process = "Popen") = (launchResult = "ok")
          /\ (proc # "none") = (spawnCount = 1))
    /\ [][obs_process' # obs_process =>
            /\ obs_process = "None"
            /\ lpc = "spawn"
            /\ launchResult' = "ok"
            /\ spawnCount' = spawnCount + 1
            /\ pc' = pc]_vars

C12_Witness ==
    obs_process = "Popen" /\ spawnCount = 1 /\ pc = "done"
    /\ terminal = "Succeeded" /\ proc = "dead"

\* C13: main does not wait for the launcher: its inspection of the handle
\* can run while the launcher has not yet made its Popen() call, and when
\* the handle is then published after the inspection the run has ended in
\* FailedNoHandle with the process spawned, never probed and never
\* commanded.
C13_HandoffNotSynchronized ==
    /\ pc = "inspect" => ENABLED MainInspect
    /\ (terminal = "FailedNoHandle" /\ obs_process = "Popen") =>
          /\ inspected = "None"
          /\ launchResult = "ok"
          /\ spawnCount = 1
          /\ numProbes = 0
          /\ ctlCount = 0

C13_Witness ==
    terminal = "FailedNoHandle" /\ inspected = "None"
    /\ obs_process = "Popen" /\ launchResult = "ok" /\ proc = "alive"
    /\ ctlCount = 0

\* C14 as stated: every run has made exactly one toggle command attempt by
\* the time it ends, whatever its terminal state.
C14_Original ==
    Terminated => ctlCount = 1

\* C14 amended: every run makes at most one toggle command attempt: exactly
\* one when it ends in Succeeded or FailedCommand, none when it ends in
\* FailedNoHandle, FailedImmediateExit, FailedTimeout or the death-detected
\* failure, whose last log line announces the exit without toggling.
C14_AtMostOneAttempt ==
    /\ ctlCount <= 1
    /\ Terminated =>
          (ctlCount = 1) = (terminal \in {"Succeeded", "FailedCommand"})
    /\ Terminated =>
          (ctlCount = 0) = (terminal \in {"FailedNoHandle",
                                         "FailedImmediateExit",
                                         "FailedTimeout", "FailedDeath"})
    /\ "not_responsive" \in log => ctlCount = 0

C14_Witness ==
    terminal = "FailedDeath" /\ ctlCount = 0 /\ numProbes = 2

\* C15: when the Popen() call of the launcher fails (tool not found or any
\* other error) the thread function still returns, the handle stays None,
\* no process exists, and main gets no further than the inspection, which
\* ends it in FailedNoHandle.
C15_LaunchFailureAbsorbed ==
    launchResult \in {"notfound", "other"} =>
        /\ lpc = "done"
        /\ obs_process = "None"
        /\ proc = "none"
        /\ spawnCount = 0
        /\ pc \in {"settle", "inspect", "done"}
        /\ numProbes = 0
        /\ ctlCount = 0
        /\ Terminated => terminal = "FailedNoHandle"

C15_Witness ==
    launchResult = "other" /\ lpc = "done" /\ terminal = "FailedNoHandle"

\* C16 as stated: a probe is started only at an elapsed time below the
\* deadline, and the run ends no later than settle delay + deadline +
\* toggle timeout ticks after its start.
C16_Original ==
    /\ pc = "probing" => callStart - start_time < MAX_WAIT_TIME_SECONDS
    /\ now <= SETTLE_DELAY + MAX_WAIT_TIME_SECONDS + TOGGLE_TIMEOUT

\* C16 amended: a probe is started only at an elapsed time below the
\* deadline, and the run ends no later than settle delay + (deadline - 1 +
\* probe timeout) + toggle timeout ticks after its start; without a toggle
\* command it ends no later than settle delay + (deadline - 1 + probe
\* timeout) + poll interval.
C16_RunLengthBound ==
    /\ pc = "probing" => callStart - start_time < MAX_WAIT_TIME_SECONDS
    /\ now <= SETTLE_DELAY + (MAX_WAIT_TIME_SECONDS - 1 + PROBE_TIMEOUT)
              + TOGGLE_TIMEOUT
    /\ ctlCount = 0 =>
          now <= SETTLE_DELAY + (MAX_WAIT_TIME_SECONDS - 1 + PROBE_TIMEOUT)
                 + CHECK_INTERVAL_SECONDS

C16_Witness ==
    Terminated /\ ctlOutcome = "timeout"
    /\ now = SETTLE_DELAY + (MAX_WAIT_TIME_SECONDS - 1 + PROBE_TIMEOUT)
             + TOGGLE_TIMEOUT

\* C17 as stated: a run that ends because the process was found dead
\* reports the death with its exit code, a run that ends because the
\* deadline elapsed reports the elapsed time limit and no death, and no run
\* that fails in the poll loop reports both or neither; neither is followed
\* by a toggle command.
C17_FailuresReportedApart ==
    terminal \in {"FailedDeath", "FailedTimeout"} =>
        /\ ("died_waiting" \in log) # ("not_responsive" \in log)
        /\ terminal = "FailedDeath" =>
              ("died_waiting" \in log /\ loggedCode = procCode)
        /\ terminal = "FailedTimeout" => "died_waiting" \notin log
        /\ ctlCount = 0

\* C18: the launcher makes its spawn attempt only after the cleanup has
\* finished, makes it whatever the cleanup did (skipped, completed, error
\* absorbed), and makes it once.
C18_CleanupThenSpawn ==
    /\ [](/\ lpc \in {"notstarted", "clean", "spawn", "done"}
          /\ lpc = "spawn" =>
               (cleanOutcome \in CleanOutcomes /\ launchResult = "none"
                /\ ENABLED LauncherSpawn)
          /\ lpc \in {"notstarted", "clean"} =>
               (launchResult = "none" /\ spawnCount = 0)
          /\ lpc = "done" => launchResult \in LaunchOutcomes)
    /\ [][lpc = "clean" => lpc' \in {"clean", "spawn"}]_vars
    /\ [][launchResult' # launchResult =>
            (lpc = "spawn" /\ cleanOutcome \in CleanOutcomes
             /\ launchResult = "none")]_vars

C18_Witness ==
    lpc = "spawn" /\ cleanOutcome = "error" /\ launchResult = "none"

\* C19: main starts no probe once its own poll() has seen the process dead;
\* probes come one at a time, each not-ready result being followed by one
\* sleep and then one liveness check before the loop condition and the next
\* probe; at most one probe is started after the process died.
C19_PollLoopSequence ==
    /\ [](/\ probesAfterDeath <= 1
          /\ pc \in {"loop", "probing", "probed"} => returncode = -1
          /\ (callStart # -1) = (pc \in {"probing", "command"}))
    /\ [][numProbes' # numProbes =>
            (pc = "loop" /\ pc' = "probing" /\ returncode = -1
             /\ numProbes' = numProbes + 1)]_vars
    /\ [][(pc = "probed" /\ pc' # "probed") =>
            (pc' = (IF probeRet = "False" THEN "sleeping" ELSE "afterloop"))]_vars
    /\ [][(pc = "sleeping" /\ pc' # "sleeping") =>
            (pc' = "livecheck" /\ now = wakeAt)]_vars
    /\ [][(pc = "livecheck" /\ pc' # "livecheck") =>
            (pc' = (IF proc = "dead" THEN "afterloop" ELSE "loop"))]_vars
    /\ [][(pc # "loop" /\ pc' = "loop") =>
            pc \in {"verify", "livecheck"}]_vars

C19_Witness ==
    probesAfterDeath = 1 /\ diedAt = "loop" /\ pc = "livecheck"
    /\ numProbes = 3

====
